---- MODULE Spec2Model ----
(***************************************************************************)
(* Contract Catalyst: the ContractCalculator component                     *)
(* (src/src/components/contract-calculator.tsx).                           *)
(*                                                                         *)
(* The model covers the zod form schema and its resolver, the submit       *)
(* handler, the result state and the words rendering of the result.        *)
(*                                                                         *)
(* Abstractions, stated once:                                              *)
(*  - a JavaScript number is NaN, +/-Infinity or an exact rational         *)
(*    n/d * 10^e (d > 0, gcd(n, d) = 1).  The binary rounding of IEEE-754  *)
(*    doubles and the negative zero are not modelled;                      *)
(*  - a JavaScript string that the code takes apart (raw field values, the *)
(*    output of toFixed, the words) is a sequence of one-character         *)
(*    strings; messages, which the code only passes on, are TLA+ strings;  *)
(*  - raw field values carry no white space and no radix prefix.           *)
(***************************************************************************)
EXTENDS Integers, Sequences, FiniteSets, TLC

VARIABLES clock, currentYear, result, errors, rendered, last, source

vars == <<clock, currentYear, result, errors, rendered, last, source>>

-----------------------------------------------------------------------------
(* Integer helpers *)

Abs(i) == IF i < 0 THEN -i ELSE i

RECURSIVE GCD(_, _)
GCD(a, b) == IF b = 0 THEN Abs(a) ELSE GCD(b, a % b)

RECURSIVE Pow10(_)
Pow10(k) == IF k = 0 THEN 1 ELSE 10 * Pow10(k - 1)

-----------------------------------------------------------------------------
(* JavaScript numbers *)

NaN == [k |-> "nan", n |-> 0, d |-> 1, e |-> 0]
Infinity == [k |-> "inf", n |-> 1, d |-> 1, e |-> 0]
NegInfinity == [k |-> "inf", n |-> -1, d |-> 1, e |-> 0]
null == [k |-> "null", n |-> 0, d |-> 1, e |-> 0]

\* The finite number n/d * 10^e in lowest terms (d # 0).
Rat(n, d, e) ==
    LET g == GCD(n, d)
        s == IF d < 0 THEN -1 ELSE 1
    IN  IF n = 0 THEN [k |-> "fin", n |-> 0, d |-> 1, e |-> 0]
        ELSE [k |-> "fin", n |-> s * (n \div g), d |-> s * (d \div g), e |-> e]

Num(i) == Rat(i, 1, 0)

IsFinite(x) == x.k = "fin"
IsNaN(x) == x.k = "nan"
Sign(x) == IF x.n > 0 THEN 1 ELSE IF x.n < 0 THEN -1 ELSE 0

Negate(x) == IF x.k = "nan" THEN NaN ELSE [x EXCEPT !.n = -x.n]

\* x + y
Add(x, y) ==
    IF x.k = "nan" \/ y.k = "nan" THEN NaN
    ELSE IF x.k = "inf" /\ y.k = "inf" THEN (IF x.n = y.n THEN x ELSE NaN)
    ELSE IF x.k = "inf" THEN x
    ELSE IF y.k = "inf" THEN y
    ELSE IF x.n = 0 THEN y
    ELSE IF y.n = 0 THEN x
    ELSE LET e  == IF x.e < y.e THEN x.e ELSE y.e
             xn == x.n * Pow10(x.e - e)
             yn == y.n * Pow10(y.e - e)
             g  == GCD(x.d, y.d)
         IN  Rat(xn * (y.d \div g) + yn * (x.d \div g), (x.d \div g) * y.d, e)

\* x - y
Sub(x, y) == Add(x, Negate(y))

\* x * y
Mul(x, y) ==
    IF x.k = "nan" \/ y.k = "nan" THEN NaN
    ELSE IF x.k = "inf" \/ y.k = "inf"
         THEN (IF Sign(x) * Sign(y) = 0 THEN NaN
               ELSE IF Sign(x) * Sign(y) > 0 THEN Infinity ELSE NegInfinity)
    ELSE IF x.n = 0 \/ y.n = 0 THEN Num(0)
    ELSE LET g1 == GCD(x.n, y.d)
             g2 == GCD(y.n, x.d)
         IN  Rat((x.n \div g1) * (y.n \div g2), (x.d \div g2) * (y.d \div g1), x.e + y.e)

\* x / y
Div(x, y) ==
    IF x.k = "nan" \/ y.k = "nan" THEN NaN
    ELSE IF x.k = "inf" /\ y.k = "inf" THEN NaN
    ELSE IF x.k = "inf"
         THEN (IF Sign(x) * Sign(y) < 0 THEN NegInfinity ELSE Infinity)
    ELSE IF y.k = "inf" THEN Num(0)
    ELSE IF y.n = 0
         THEN (IF x.n = 0 THEN NaN ELSE IF x.n > 0 THEN Infinity ELSE NegInfinity)
    ELSE Mul(x, Rat(y.d, y.n, -y.e))

\* x < y
Lt(x, y) ==
    IF x.k = "nan" \/ y.k = "nan" THEN FALSE
    ELSE IF x.k = "inf" THEN x.n < 0 /\ y # x
    ELSE IF y.k = "inf" THEN y.n > 0
    ELSE IF Sign(x) # Sign(y) THEN Sign(x) < Sign(y)
    ELSE Sign(Sub(x, y)) < 0

Gt(x, y) == Lt(y, x)

\* x <= y
Le(x, y) ==
    IF x.k = "nan" \/ y.k = "nan" THEN FALSE ELSE ~Lt(y, x)

\* Number.isInteger(x)
IsInteger(x) == x.k = "fin" /\ x.d = 1 /\ x.e >= 0

-----------------------------------------------------------------------------
(* Strings as sequences of characters *)

DigitChars == <<"0", "1", "2", "3", "4", "5", "6", "7", "8", "9">>

IsDigit(c) == \E i \in 1..10 : DigitChars[i] = c
DigitVal(c) == (CHOOSE i \in 1..10 : DigitChars[i] = c) - 1
AllDigits(s) == \A i \in DOMAIN s : IsDigit(s[i])

RECURSIVE DigitsToInt(_)
DigitsToInt(s) ==
    IF s = <<>> THEN 0
    ELSE 10 * DigitsToInt(SubSeq(s, 1, Len(s) - 1)) + DigitVal(s[Len(s)])

\* The first position of character c in s at or after i, 0 when absent.
RECURSIVE IndexFrom(_, _, _)
IndexFrom(s, c, i) ==
    IF i > Len(s) THEN 0 ELSE IF s[i] = c THEN i ELSE IndexFrom(s, c, i + 1)

IndexOf(s, c) == IndexFrom(s, c, 1)

Tail2(s, i) == SubSeq(s, i, Len(s))

InfinityChars == <<"I", "n", "f", "i", "n", "i", "t", "y">>

\* The value n/d * 10^p; a small exponent is folded into n/d.
Scaled(n, d, p) ==
    IF p >= 0 /\ p <= 6 THEN Rat(n * Pow10(p), d, 0)
    ELSE IF p < 0 /\ p >= -6 THEN Rat(n, d * Pow10(-p), 0)
    ELSE Rat(n, d, p)

\* The value of integer digits ip, fraction digits fp and exponent digits
\* eDigs (present when hasExp, negative when eNeg); NaN when malformed.
DecimalValue(ip, fp, hasExp, eNeg, eDigs) ==
    IF /\ AllDigits(ip) /\ AllDigits(fp) /\ Len(ip) + Len(fp) > 0
       /\ (hasExp => (eDigs # <<>> /\ AllDigits(eDigs)))
    THEN Scaled(DigitsToInt(ip \o fp), Pow10(Len(fp)),
                (IF eNeg THEN -1 ELSE 1) * DigitsToInt(eDigs))
    ELSE NaN

\* The value of mantissa mant and exponent part expo (the text after "e").
MantissaExponent(mant, expo, hasExp) ==
    DecimalValue(IF IndexOf(mant, ".") > 0 THEN SubSeq(mant, 1, IndexOf(mant, ".") - 1)
                 ELSE mant,
                 IF IndexOf(mant, ".") > 0 THEN Tail2(mant, IndexOf(mant, ".") + 1)
                 ELSE <<>>,
                 hasExp,
                 expo # <<>> /\ expo[1] = "-",
                 IF expo # <<>> /\ expo[1] \in {"+", "-"} THEN Tail(expo) ELSE expo)

\* The position of the exponent mark in s, 0 when absent.
ExponentMark(s) == IF IndexOf(s, "e") > 0 THEN IndexOf(s, "e") ELSE IndexOf(s, "E")

\* An unsigned decimal literal: digits [. digits] [e [sign] digits].
UnsignedToNumber(s) ==
    MantissaExponent(IF ExponentMark(s) > 0 THEN SubSeq(s, 1, ExponentMark(s) - 1) ELSE s,
                     IF ExponentMark(s) > 0 THEN Tail2(s, ExponentMark(s) + 1) ELSE <<>>,
                     ExponentMark(s) > 0)

\* Number(s) for a string s (StringToNumber): "" is 0, a decimal literal is its
\* value, "Infinity" is Infinity, anything else is NaN.
StringToNumber(s) ==
    IF s = <<>> THEN Num(0)
    ELSE IF s[1] = "-"
         THEN (IF Tail(s) = InfinityChars THEN NegInfinity
               ELSE IF Tail(s) = <<>> THEN NaN
               ELSE Negate(UnsignedToNumber(Tail(s))))
    ELSE IF s = InfinityChars \/ s = <<"+">> \o InfinityChars THEN Infinity
    ELSE IF s = <<"+">> THEN NaN
    ELSE UnsignedToNumber(IF s[1] = "+" THEN Tail(s) ELSE s)

\* A raw field value: undefined (the default of an untouched field) or the
\* string of the input element.
undefined == [t |-> "undefined", s |-> <<>>]
Str(s) == [t |-> "string", s |-> s]

\* Number(v), the coercion of z.coerce.number()
ToNumber(v) == IF v.t = "undefined" THEN NaN ELSE StringToNumber(v.s)

-----------------------------------------------------------------------------
(* The form schema (zod) *)

MinYear == 1900

Fields == <<"contractValue", "issueYear", "renewalYear">>

Issue(path, code, message) == [path |-> path, code |-> code, message |-> message]

\* ZodNumber._parse after coercion: a NaN is an invalid_type issue and aborts;
\* otherwise every check runs, and each failed check adds its issue (dirty).
TypeIssue(path) == Issue(path, "invalid_type", "Expected number, received nan")

IntIssues(path, x) ==
    IF IsInteger(x) THEN <<>>
    ELSE <<Issue(path, "invalid_type", "Expected integer, received float")>>

MinYearIssues(path, x) ==
    IF Lt(x, Num(MinYear)) THEN <<Issue(path, "too_small", "Year must be 1900 or later.")>>
    ELSE <<>>

Parsed(x, issues) ==
    [status |-> IF issues = <<>> THEN "valid" ELSE "dirty", value |-> x, issues |-> issues]

Aborted(path) == [status |-> "aborted", value |-> NaN, issues |-> <<TypeIssue(path)>>]

\* number().positive(...)
PositiveNumber(x) ==
    IF IsNaN(x) THEN Aborted("contractValue")
    ELSE Parsed(x, IF Le(x, Num(0))
                   THEN <<Issue("contractValue", "too_small",
                                "Contract value must be a positive number.")>>
                   ELSE <<>>)

\* Mutant: the positive() check is missing.
contractValueSchema_NoPositive(v) ==
    IF IsNaN(ToNumber(v)) THEN Aborted("contractValue") ELSE Parsed(ToNumber(v), <<>>)

contractValueSchema(v) == PositiveNumber(ToNumber(v))

\* number().int().min(1900, ...).max(currentYear, ...)
IssueYearNumber(x, cy) ==
    IF IsNaN(x) THEN Aborted("issueYear")
    ELSE Parsed(x, IntIssues("issueYear", x) \o MinYearIssues("issueYear", x)
                   \o (IF Gt(x, Num(cy))
                       THEN <<Issue("issueYear", "too_big", "Year cannot be in the future.")>>
                       ELSE <<>>))

issueYearSchema(v, cy) == IssueYearNumber(ToNumber(v), cy)

\* number().int().min(1900, ...)
RenewalYearNumber(x) ==
    IF IsNaN(x) THEN Aborted("renewalYear")
    ELSE Parsed(x, IntIssues("renewalYear", x) \o MinYearIssues("renewalYear", x))

renewalYearSchema(v) == RenewalYearNumber(ToNumber(v))

\* The refinement of the object schema.
RefineHolds(data) == Gt(data.renewalYear, data.issueYear)

\* ZodEffects: the refinement runs on the parsed data unless a key aborted,
\* and adds its issue on renewalYear when it fails.
Refined(data, inner, aborted) ==
    IF aborted \/ RefineHolds(data)
    THEN [success |-> inner = <<>>, data |-> data, issues |-> inner]
    ELSE [success |-> FALSE, data |-> data,
          issues |-> Append(inner, Issue("renewalYear", "custom",
                                         "Renewal year must be after the issue year."))]

\* ZodObject: the parsed keys c, i, r in order, their issues collected.
ParsedObject(c, i, r) ==
    Refined([contractValue |-> c.value, issueYear |-> i.value, renewalYear |-> r.value],
            c.issues \o i.issues \o r.issues,
            "aborted" \in {c.status, i.status, r.status})

\* formSchema.safeParse(raw) with the module's currentYear.
formSchema(raw, cy) ==
    ParsedObject(contractValueSchema(raw.contractValue),
                 issueYearSchema(raw.issueYear, cy),
                 renewalYearSchema(raw.renewalYear))

NoError == ""
NoErrors == [f \in {Fields[j] : j \in 1..3} |-> NoError]

NoData == [contractValue |-> null, issueYear |-> null, renewalYear |-> null]

\* The message of the first issue on path f, NoError when there is none.
FirstMessage(issues, f) ==
    IF \E j \in DOMAIN issues : issues[j].path = f
    THEN issues[CHOOSE j \in DOMAIN issues :
                   /\ issues[j].path = f
                   /\ \A h \in 1..(j - 1) : issues[h].path # f].message
    ELSE NoError

\* The resolver's answer for the parse result res: the first issue of each
\* path becomes the field's error; the values are the parsed data when there
\* is no issue.  (parsed keeps the coerced numbers of every submission for the
\* record of the call.)
ResolverResult(res) ==
    [values |-> IF res.success THEN res.data ELSE NoData,
     errors |-> [f \in DOMAIN NoErrors |-> FirstMessage(res.issues, f)],
     issues |-> res.issues,
     parsed |-> res.data]

zodResolver(raw, cy) == ResolverResult(formSchema(raw, cy))

-----------------------------------------------------------------------------
(* Outcomes of a JavaScript call: a returned string or a thrown error *)

Ok(text) == [status |-> "ok", text |-> text]
Throw(name) == [status |-> name, text |-> <<>>]

-----------------------------------------------------------------------------
(* String operations used by resultInWords *)

\* s.split(sep) for a one-character separator.
RECURSIVE Split(_, _)
Split(s, sep) ==
    LET i == IndexOf(s, sep)
    IN  IF i = 0 THEN <<s>>
        ELSE <<SubSeq(s, 1, i - 1)>> \o Split(Tail2(s, i + 1), sep)

\* parts.join(sep)
RECURSIVE Join(_, _)
Join(parts, sep) ==
    IF parts = <<>> THEN <<>>
    ELSE IF Len(parts) = 1 THEN parts[1]
    ELSE parts[1] \o sep \o Join(Tail(parts), sep)

LowerChars == <<"a", "b", "c", "d", "e", "f", "g", "h", "i", "j", "k", "l", "m", "n", "o", "p", "q", "r", "s", "t", "u", "v", "w", "x", "y", "z">>
UpperChars == <<"A", "B", "C", "D", "E", "F", "G", "H", "I", "J", "K", "L", "M", "N", "O", "P", "Q", "R", "S", "T", "U", "V", "W", "X", "Y", "Z">>

\* c.toUpperCase() for one character
ToUpperCase(c) ==
    IF \E i \in 1..26 : LowerChars[i] = c
    THEN UpperChars[CHOOSE i \in 1..26 : LowerChars[i] = c]
    ELSE c

\* word.charAt(0).toUpperCase() + word.slice(1)
Capitalize(word) ==
    IF word = <<>> THEN <<>> ELSE <<ToUpperCase(word[1])>> \o Tail(word)

RECURSIVE IntToDigits(_)
IntToDigits(i) ==
    IF i < 10 THEN <<DigitChars[i + 1]>>
    ELSE Append(IntToDigits(i \div 10), DigitChars[(i % 10) + 1])

RECURSIVE Zeros(_)
Zeros(k) == IF k <= 0 THEN <<>> ELSE <<"0">> \o Zeros(k - 1)

-----------------------------------------------------------------------------
(* Number.prototype.toString and toFixed *)

\* floor(log10(n/d)) for n, d > 0
RECURSIVE Log10Floor(_, _)
Log10Floor(n, d) ==
    IF n >= 10 * d THEN 1 + Log10Floor(n, 10 * d)
    ELSE IF n < d THEN Log10Floor(10 * n, d) - 1
    ELSE 0

\* floor(log10(|x|)) of a finite non-zero x
Magnitude(x) == Log10Floor(Abs(x.n), x.d) + x.e

\* |x| >= 10^21.  A number with e = 0 lies within the integers of the checker.
AtLeast1e21(x) == x.k = "fin" /\ x.n # 0 /\ x.e # 0 /\ Magnitude(x) >= 21

\* The significant digits of n/d in [1, 10): at most count digits, trailing
\* zeros dropped.
RECURSIVE SigDigits(_, _, _)
SigDigits(n, d, count) ==
    IF count = 0 \/ n = 0 THEN <<>>
    ELSE <<DigitChars[(n \div d) + 1]>> \o SigDigits(10 * (n % d), d, count - 1)

\* Number::toString of a finite x >= 10^21: d[.ddd]e+XX
ExponentString(x) ==
    LET m  == Log10Floor(x.n, x.d)
        n1 == IF m < 0 THEN x.n * Pow10(-m) ELSE x.n
        d1 == IF m > 0 THEN x.d * Pow10(m) ELSE x.d
        ds == SigDigits(n1, d1, 17)
    IN  (IF Len(ds) = 1 THEN ds ELSE <<ds[1], ".">> \o Tail(ds))
        \o <<"e", "+">> \o IntToDigits(Magnitude(x))

\* num.toFixed(3)
toFixed3(x) ==
    IF x.k = "nan" THEN <<"N", "a", "N">>
    ELSE IF x.k = "inf" THEN (IF x.n < 0 THEN <<"-">> ELSE <<>>) \o InfinityChars
    ELSE LET s  == IF x.n < 0 THEN <<"-">> ELSE <<>>
             a  == Abs(x.n)
         IN  IF AtLeast1e21(x) THEN s \o ExponentString([x EXCEPT !.n = a])
             ELSE LET n  == 1000 * (a \div x.d) + (2000 * (a % x.d) + x.d) \div (2 * x.d)
                      m0 == IntToDigits(n)
                      m  == Zeros(4 - Len(m0)) \o m0
                      k  == Len(m)
                  IN  s \o SubSeq(m, 1, k - 3) \o <<".">> \o SubSeq(m, k - 2, k)

-----------------------------------------------------------------------------
(* toWords of the number-to-words package *)

LESS_THAN_TWENTY ==
    << <<"z", "e", "r", "o">>,
       <<"o", "n", "e">>,
       <<"t", "w", "o">>,
       <<"t", "h", "r", "e", "e">>,
       <<"f", "o", "u", "r">>,
       <<"f", "i", "v", "e">>,
       <<"s", "i", "x">>,
       <<"s", "e", "v", "e", "n">>,
       <<"e", "i", "g", "h", "t">>,
       <<"n", "i", "n", "e">>,
       <<"t", "e", "n">>,
       <<"e", "l", "e", "v", "e", "n">>,
       <<"t", "w", "e", "l", "v", "e">>,
       <<"t", "h", "i", "r", "t", "e", "e", "n">>,
       <<"f", "o", "u", "r", "t", "e", "e", "n">>,
       <<"f", "i", "f", "t", "e", "e", "n">>,
       <<"s", "i", "x", "t", "e", "e", "n">>,
       <<"s", "e", "v", "e", "n", "t", "e", "e", "n">>,
       <<"e", "i", "g", "h", "t", "e", "e", "n">>,
       <<"n", "i", "n", "e", "t", "e", "e", "n">> >>

TENTHS_LESS_THAN_HUNDRED ==
    << <<"z", "e", "r", "o">>,
       <<"t", "e", "n">>,
       <<"t", "w", "e", "n", "t", "y">>,
       <<"t", "h", "i", "r", "t", "y">>,
       <<"f", "o", "r", "t", "y">>,
       <<"f", "i", "f", "t", "y">>,
       <<"s", "i", "x", "t", "y">>,
       <<"s", "e", "v", "e", "n", "t", "y">>,
       <<"e", "i", "g", "h", "t", "y">>,
       <<"n", "i", "n", "e", "t", "y">> >>

Hundred == <<" ", "h", "u", "n", "d", "r", "e", "d">>
ThousandComma == <<" ", "t", "h", "o", "u", "s", "a", "n", "d", ",">>
MillionComma == <<" ", "m", "i", "l", "l", "i", "o", "n", ",">>
BillionComma == <<" ", "b", "i", "l", "l", "i", "o", "n", ",">>
Minus == <<"m", "i", "n", "u", "s">>

\* str.replace(/,$/, '')
StripFinalComma(s) ==
    IF s # <<>> /\ s[Len(s)] = "," THEN SubSeq(s, 1, Len(s) - 1) ELSE s

\* generateWords(number) for 0 < number < 100: one word
WordBelowHundred(number) ==
    IF number < 20 THEN LESS_THAN_TWENTY[number + 1]
    ELSE TENTHS_LESS_THAN_HUNDRED[(number \div 10) + 1]
         \o (IF number % 10 # 0
             THEN <<"-">> \o LESS_THAN_TWENTY[(number % 10) + 1] ELSE <<>>)

\* generateWords(number) for 0 < number < 1000, the inner calls of the
\* hundred, thousand, million and billion branches
WordsBelowThousand(number) ==
    IF number < 100 THEN WordBelowHundred(number)
    ELSE LESS_THAN_TWENTY[(number \div 100) + 1] \o Hundred
         \o (IF number % 100 # 0 THEN <<" ">> \o WordBelowHundred(number % 100)
             ELSE <<>>)

\* generateWords(number, words) for a non-negative number: each branch pushes
\* one word and recurs on the remainder.
RECURSIVE generateWords(_, _)
generateWords(number, words) ==
    IF number = 0
    THEN (IF words = <<>> THEN LESS_THAN_TWENTY[1]
          ELSE StripFinalComma(Join(words, <<" ">>)))
    ELSE IF number < 100
    THEN generateWords(0, Append(words, WordBelowHundred(number)))
    ELSE IF number < 1000
    THEN generateWords(number % 100,
            Append(words, LESS_THAN_TWENTY[(number \div 100) + 1] \o Hundred))
    ELSE IF number < 1000000
    THEN generateWords(number % 1000,
            Append(words, WordsBelowThousand(number \div 1000) \o ThousandComma))
    ELSE IF number < 1000000000
    THEN generateWords(number % 1000000,
            Append(words, WordsBelowThousand(number \div 1000000) \o MillionComma))
    ELSE generateWords(number % 1000000000,
            Append(words, WordsBelowThousand(number \div 1000000000) \o BillionComma))

\* parseInt(x, 10) of a number x: the integer read from the front of String(x)
parseInt(x) ==
    IF x.k # "fin" THEN NaN
    ELSE IF AtLeast1e21(x)
         THEN Num(Sign(x) * DigitVal(ExponentString([x EXCEPT !.n = Abs(x.n)])[1]))
    ELSE IF x.e = 0 THEN Num(Sign(x) * (Abs(x.n) \div x.d))
    ELSE x

\* isSafeNumber: |num| <= Number.MAX_SAFE_INTEGER = 2^53 - 1
isSafeNumber(x) == x.n = 0 \/ x.e = 0 \/ Magnitude(x) < 15

\* toWords after num = parseInt(number, 10)
WordsOfInteger(num) ==
    IF ~IsFinite(num) THEN Throw("TypeError")
    ELSE IF ~isSafeNumber(num) THEN Throw("RangeError")
    ELSE IF num.n < 0 THEN Ok(generateWords(-num.n, <<Minus>>))
    ELSE Ok(generateWords(num.n, <<>>))

\* toWords(number)
toWords(x) == WordsOfInteger(parseInt(x))

-----------------------------------------------------------------------------
(* The component *)

\* 10.33
Rate == Rat(1033, 100, 0)

\* Mutant: the percentage is not divided by 100.
onSubmit_NoPercent(data, curResult, curErrors) ==
    LET yearsDifference == Sub(data.renewalYear, data.issueYear)
        value1 == Div(data.contractValue, Mul(yearsDifference, Num(12)))
        value2 == Mul(value1, Rate)
    IN  IF Le(yearsDifference, Num(0))
        THEN [result |-> curResult,
              errors |-> [curErrors EXCEPT !["renewalYear"] =
                             "Renewal year must be greater than issue year."],
              thrown |-> "none"]
        ELSE [result |-> Add(value2, value1), errors |-> curErrors, thrown |-> "none"]

\* Mutant: the fallback guards only a negative duration.
onSubmit_StrictGuard(data, curResult, curErrors) ==
    LET yearsDifference == Sub(data.renewalYear, data.issueYear)
        value1 == Div(data.contractValue, Mul(yearsDifference, Num(12)))
        value2 == Mul(value1, Rate)
    IN  IF Lt(yearsDifference, Num(0))
        THEN [result |-> curResult,
              errors |-> [curErrors EXCEPT !["renewalYear"] =
                             "Renewal year must be greater than issue year."],
              thrown |-> "none"]
        ELSE [result |-> Add(Div(value2, Num(100)), value1), errors |-> curErrors,
              thrown |-> "none"]

\* onSubmit(data) in a component whose state is (result, errors): the state
\* it leaves.  thrown names the error the call throws ("none": it returns).
onSubmit(data, curResult, curErrors) ==
    LET yearsDifference == Sub(data.renewalYear, data.issueYear)
        value1 == Div(data.contractValue, Mul(yearsDifference, Num(12)))
        value2 == Mul(value1, Rate)
        finalAnswer == Add(Div(value2, Num(100)), value1)
    IN  IF Le(yearsDifference, Num(0))
        THEN [result |-> curResult,
              errors |-> [curErrors EXCEPT !["renewalYear"] =
                             "Renewal year must be greater than issue year."],
              thrown |-> "none"]
        ELSE [result |-> finalAnswer, errors |-> curErrors, thrown |-> "none"]

\* words.split(' ').map(word => word.charAt(0).toUpperCase() + word.slice(1))
RECURSIVE MapCapitalize(_)
MapCapitalize(ws) ==
    IF ws = <<>> THEN <<>> ELSE <<Capitalize(Head(ws))>> \o MapCapitalize(Tail(ws))

\* fractionalPart.split('').map(digit => toWords(Number(digit))): the words of
\* each character in turn (w: those of the first), or the first error thrown.
RECURSIVE MapDigitWords(_, _)
NextDigitWords(w, chars, acc) ==
    IF w.status # "ok" THEN [status |-> w.status, parts |-> <<>>]
    ELSE MapDigitWords(Tail(chars), Append(acc, w.text))

MapDigitWords(chars, acc) ==
    IF chars = <<>> THEN [status |-> "ok", parts |-> acc]
    ELSE NextDigitWords(toWords(StringToNumber(<<Head(chars)>>)), chars, acc)

\* Lines 80-81: the words joined with " point " and title-cased.
TitleCased(integerText, digitWords) ==
    IF digitWords.status # "ok" THEN Throw(digitWords.status)
    ELSE Ok(Join(MapCapitalize(Split(integerText \o <<" ", "p", "o", "i", "n", "t", " ">>
                                     \o Join(digitWords.parts, <<" ">>), " ")),
                 <<" ">>))

\* Lines 77-81 for the parts of fixedNum.split('.'); a missing fractionalPart
\* is undefined, and undefined.split throws.
WordsOfParts(integerWords, parts) ==
    IF integerWords.status # "ok" THEN integerWords
    ELSE IF Len(parts) < 2 THEN Throw("TypeError")
    ELSE TitleCased(integerWords.text, MapDigitWords(parts[2], <<>>))

SplitFixed(parts) == WordsOfParts(toWords(StringToNumber(parts[1])), parts)

\* resultInWords(num)
resultInWords(num) ==
    IF num = null THEN Ok(<<>>) ELSE SplitFixed(Split(toFixed3(num), "."))

\* What the result card shows in its words line; the card is rendered only
\* for a result that is not null.
Render(res) == IF res = null THEN Ok(<<>>) ELSE resultInWords(res)

NoRaw == [contractValue |-> undefined, issueYear |-> undefined, renewalYear |-> undefined]

NoCall ==
    [op |-> "none", raw |-> NoRaw, data |-> NoData, clockAt |-> 0, issues |-> <<>>,
     valid |-> FALSE, before |-> null, thrown |-> "none", arg |-> null,
     out |-> Ok(<<>>)]

\* A call of onSubmit stores a result when the data passed the resolver and
\* spans a positive duration; source records the data of the last such call.
Successful(valid, data) == valid /\ Gt(data.renewalYear, data.issueYear)

-----------------------------------------------------------------------------
(* Bounds and inputs *)

FirstYear == 2024
MaxTicks == 1

YearStr(y) == Str(IntToDigits(y))

RawContractValues ==
    { undefined, Str(<<>>), Str(<<"-", "5">>), Str(<<"0", ".", "5">>),
      Str(<<"1", "2", "0", "0", "0">>), Str(InfinityChars), Str(<<"1", "e", "3", "0">>) }

RawIssueYears ==
    { undefined, YearStr(MinYear - 1), YearStr(MinYear),
      Str(<<"1", "9", "0", "0", ".", "5">>), YearStr(FirstYear), YearStr(FirstYear + 1) }

RawRenewalYears ==
    { YearStr(MinYear - 100), YearStr(MinYear), YearStr(FirstYear + 1) }

RawInputs ==
    [contractValue : RawContractValues, issueYear : RawIssueYears,
     renewalYear : RawRenewalYears]

-----------------------------------------------------------------------------
(* Behaviour *)

\* The module is evaluated (currentYear, line 30) and the component mounts.
Init ==
    /\ clock = FirstYear
    /\ currentYear = clock
    /\ result = null
    /\ errors = NoErrors
    /\ rendered = Render(null)
    /\ last = NoCall
    /\ source = NoData

\* The calendar year advances while the page stays loaded.
Tick ==
    /\ clock < FirstYear + MaxTicks
    /\ clock' = clock + 1
    /\ UNCHANGED <<currentYear, result, errors, rendered, last, source>>

\* The words line after the component renders again with result res: the
\* rendering is a function of the result alone, so it changes only with it.
Rerender(res) == IF res = result THEN rendered ELSE Render(res)

\* The resolver's answer for every raw input of the model and the module's
\* currentYear, computed once.
Resolved == {<<raw, cy, zodResolver(raw, cy)>> : raw \in RawInputs, cy \in {FirstYear}}

Resolve(raw, cy) == (CHOOSE p \in Resolved : p[1] = raw /\ p[2] = cy)[3]

\* The state after a submission of raw that the resolver answered with r and
\* that ended with out (of onSubmit, or the state kept on a rejection).
Submitted(raw, r, out) ==
    [result |-> out.result,
     errors |-> out.errors,
     rendered |-> Rerender(out.result),
     last |-> [NoCall EXCEPT !.op = "submit", !.raw = raw, !.data = r.parsed,
                             !.clockAt = clock, !.issues = r.issues,
                             !.valid = (r.errors = NoErrors), !.before = result,
                             !.thrown = out.thrown],
     source |-> IF Successful(r.errors = NoErrors, r.values) THEN r.values ELSE source]

\* handleSubmit with the resolver's answer r: onSubmit is called with the
\* parsed values only when the resolver reports no error.
Resolved_handleSubmit(raw, r) ==
    Submitted(raw, r,
              IF r.errors = NoErrors THEN onSubmit(r.values, result, NoErrors)
              ELSE [result |-> result, errors |-> r.errors, thrown |-> "none"])

\* Mutant: a rejected submission clears the result.
handleSubmit_ClearsOnInvalid(raw) ==
    Submitted(raw, Resolve(raw, currentYear),
              IF Resolve(raw, currentYear).errors = NoErrors
              THEN onSubmit(Resolve(raw, currentYear).values, result, NoErrors)
              ELSE [result |-> null, errors |-> Resolve(raw, currentYear).errors,
                    thrown |-> "none"])

\* form.handleSubmit(onSubmit) on the form holding raw: the resolver runs,
\* onSubmit is called with the parsed values only when it reports no error,
\* and the component renders again.  The state it leaves.
handleSubmit(raw) == Resolved_handleSubmit(raw, Resolve(raw, currentYear))

\* The user submits the form holding raw.
Submit(raw) ==
    /\ rendered.status = "ok"
    /\ \E o \in {handleSubmit(raw)} :
          /\ result' = o.result
          /\ errors' = o.errors
          /\ rendered' = o.rendered
          /\ last' = o.last
          /\ source' = o.source
    /\ UNCHANGED <<clock, currentYear>>

Next == Tick \/ \E raw \in RawInputs : Submit(raw)

Spec == Init /\ [][Next]_vars

-----------------------------------------------------------------------------
(* The functions called on their own *)

\* Typed form values (FormValues) given to onSubmit.
DataInputs ==
    [contractValue : {Rat(1, 2, 0), Num(12000)},
     issueYear : {Num(MinYear), Num(FirstYear), Num(FirstYear + 1)},
     renewalYear : {Num(MinYear), Num(FirstYear), Num(FirstYear + 1)}]

\* Numbers given to resultInWords.
NumberInputs ==
    { null, NaN, Infinity, Rat(1, 1, 30),
      Num(0), Rat(1, 2000, 0), Rat(1999, 2000, 0), Num(7), Num(21), Num(100),
      Num(1000), Rat(999999, 1000, 0), Rat(1999999, 2000, 0), Rat(11033, 10, 0),
      Rat(12345678, 1000, 0), Rat(1000000001, 1000, 0),
      Rat(-1, 2500, 0), Rat(-3, 2, 0), Num(-1234) }

\* onSubmit(data) is called.
CallOnSubmit(data) ==
    /\ rendered.status = "ok"
    /\ \E o \in {onSubmit(data, result, errors)} :
          /\ result' = o.result
          /\ errors' = o.errors
          /\ rendered' = Rerender(o.result)
          /\ last' = [NoCall EXCEPT !.op = "onSubmit", !.data = data,
                                    !.clockAt = clock, !.before = result,
                                    !.thrown = o.thrown]
          /\ source' = IF Successful(TRUE, data) THEN data ELSE source
    /\ UNCHANGED <<clock, currentYear>>

\* resultInWords(num) is called.
CallResultInWords(num) ==
    /\ last' = [NoCall EXCEPT !.op = "resultInWords", !.arg = num,
                              !.out = resultInWords(num)]
    /\ UNCHANGED <<clock, currentYear, result, errors, rendered, source>>

NextCalls ==
    \/ \E data \in DataInputs : CallOnSubmit(data)
    \/ \E num \in NumberInputs : CallResultInWords(num)

SpecCalls == Init /\ [][NextCalls]_vars

-----------------------------------------------------------------------------
(* Vocabulary of the properties *)

\* The validation rules, stated on the coerced numbers of a triple.
IsYear(x) == x.k = "fin" /\ x.d = 1 /\ x.e = 0
ValidTriple(d, cy) ==
    /\ d.contractValue.k \in {"fin", "inf"} /\ d.contractValue.n > 0
    /\ IsYear(d.issueYear) /\ d.issueYear.n >= 1900 /\ d.issueYear.n <= cy
    /\ IsYear(d.renewalYear) /\ d.renewalYear.n >= 1900
    /\ d.renewalYear.n > d.issueYear.n

HasIssue(issues, path, code) ==
    \E j \in DOMAIN issues : issues[j].path = path /\ issues[j].code = code
HasIssueOn(issues, path) == \E j \in DOMAIN issues : issues[j].path = path

\* contractValue * 1.1033 / months for whole years with ry > iy
ClosedForm(d) ==
    Mul(Div(d.contractValue, Num(12 * (d.renewalYear.n - d.issueYear.n))),
        Rat(11033, 10000, 0))

-----------------------------------------------------------------------------
(* Properties *)

\* C1: the calculation runs only for a triple that passes every validation
\* rule: a present result comes from a stored triple satisfying all rules, and
\* a submission whose triple breaks a rule leaves the result as it was and
\* produces a field error.
C1_CalculationOnlyIfValid ==
    /\ result # null => (source # NoData /\ ValidTriple(source, currentYear))
    /\ (last.op = "submit" /\ ~ValidTriple(last.data, currentYear))
          => (result = last.before /\ errors # NoErrors /\ ~last.valid)

\* C1 witness: a rejected submission made while a result is present.
C1_Witness ==
    /\ last.op = "submit" /\ ~last.valid /\ result # null /\ errors # NoErrors

\* C2: every submission with renewalYear <= issueYear yields the renewal-after-
\* issue issue on the renewalYear field, whatever the other fields hold.
C2_RenewalNotAfterIssueAlways ==
    (last.op = "submit" /\ Le(last.data.renewalYear, last.data.issueYear))
        => HasIssue(last.issues, "renewalYear", "custom")

\* C3: one validation pass reports every violated constraint on its field.
C3_AllViolationsCollected ==
    last.op = "submit" =>
        LET d == last.data
        IN  /\ IsNaN(d.contractValue) => HasIssue(last.issues, "contractValue", "invalid_type")
            /\ Le(d.contractValue, Num(0)) => HasIssue(last.issues, "contractValue", "too_small")
            /\ IsNaN(d.issueYear) => HasIssue(last.issues, "issueYear", "invalid_type")
            /\ Lt(d.issueYear, Num(1900)) => HasIssue(last.issues, "issueYear", "too_small")
            /\ Gt(d.issueYear, Num(currentYear)) => HasIssue(last.issues, "issueYear", "too_big")
            /\ IsNaN(d.renewalYear) => HasIssue(last.issues, "renewalYear", "invalid_type")
            /\ Lt(d.renewalYear, Num(1900)) => HasIssue(last.issues, "renewalYear", "too_small")
            /\ Le(d.renewalYear, d.issueYear) => HasIssue(last.issues, "renewalYear", "custom")

\* C4: a validation accepts an integer issueYear exactly when it lies between
\* 1900 and the calendar year at the time of that validation.
C4_IssueYearAgainstClock ==
    (last.op = "submit" /\ IsYear(last.data.issueYear))
        => (~HasIssueOn(last.issues, "issueYear")
              <=> (last.data.issueYear.n >= 1900 /\ last.data.issueYear.n <= last.clockAt))

\* C5: the stored result is contractValue / months * 1.1033, unrounded; for
\* 12000 over one year (12 months) it is 1103.3.
C5_ResultIsFormula ==
    result # null =>
        /\ source # NoData
        /\ result = ClosedForm(source)
        /\ (source.contractValue = Num(12000)
              /\ source.renewalYear.n - source.issueYear.n = 1)
             => result = Rat(11033, 10, 0)

\* C5 witness: 12000 over one year is stored as 1103.3, and a result with more
\* than three decimals is stored unrounded.
C5_Witness ==
    /\ result = Rat(11033, 10, 0) /\ source.contractValue = Num(12000)
    /\ source.renewalYear.n - source.issueYear.n = 1

C7_NegativeValueFails ==
    (last.op = "resultInWords" /\ last.arg.k \in {"fin", "inf"} /\ last.arg.n < 0)
        => last.out.status = "NegativeValue"

\* C8: the result is absent or a finite, non-negative number, and validation
\* puts an issue on every contractValue that is not a finite number > 0.
C8_ResultFiniteNonNegative ==
    /\ result = null \/ (IsFinite(result) /\ result.n >= 0)
    /\ (last.op = "submit" /\ ~(IsFinite(last.data.contractValue)
                                 /\ last.data.contractValue.n > 0))
          => HasIssueOn(last.issues, "contractValue")

\* The words of a finite non-negative x as C9 describes them: the capitalised
\* cardinal words of the integer part of x rounded to three decimals, "Point",
\* and the three digit words of the fraction.
WordsAsDescribed(text, x) ==
    LET toks == Split(text, " ")
        k    == Len(toks)
        th   == 1000 * (x.n \div x.d) + (2000 * (x.n % x.d) + x.d) \div (2 * x.d)
        ip   == th \div 1000
        fd   == <<(th \div 100) % 10, (th \div 10) % 10, th % 10>>
    IN  /\ k >= 5
        /\ toks[k - 3] = <<"P", "o", "i", "n", "t">>
        /\ \A j \in 1..3 : toks[k - 3 + j] = Capitalize(LESS_THAN_TWENTY[fd[j] + 1])
        /\ SubSeq(toks, 1, k - 4) = MapCapitalize(Split(generateWords(ip, <<>>), " "))
        /\ \A j \in 1..k : toks[j] # <<>> /\ \E u \in 1..26 : toks[j][1] = UpperChars[u]
        /\ ip = 0 => SubSeq(toks, 1, k - 4) = << <<"Z", "e", "r", "o">> >>

\* C9: every finite non-negative result is rendered in words as described.
C9_WordsOfEveryResult ==
    (result # null /\ IsFinite(result) /\ result.n >= 0)
        => (rendered.status = "ok" /\ WordsAsDescribed(rendered.text, result))

\* Supporting C9: whenever the words line is rendered without an error, it is
\* as described (the divergence of C9 is the thrown error alone).
WordsLineAsDescribedWhenRendered ==
    /\ (result # null /\ rendered.status = "ok") => WordsAsDescribed(rendered.text, result)
    /\ (last.op = "resultInWords" /\ IsFinite(last.arg) /\ last.arg.n >= 0
           /\ last.out.status = "ok") => WordsAsDescribed(last.out.text, last.arg)

\* C10: a step either leaves the result as it is or replaces it with the
\* formula of the submitted triple alone; a rejected submission leaves it
\* unchanged; a present result never becomes absent.
C10_ResultReplacedOrKept ==
    [][ /\ result # null => result' # null
        /\ last' = last => result' = result
        /\ last' # last =>
              result' = IF ValidTriple(last'.data, currentYear)
                        THEN ClosedForm(last'.data) ELSE result ]_vars

\* C10 witness: a valid submission replaced a present result with another, and
\* (C1_Witness) a rejected submission kept a present result.
C10_Witness ==
    /\ last.op = "submit" /\ last.valid /\ last.before # null
    /\ result # last.before /\ result = ClosedForm(last.data)

====
